---- MODULE Spec2Model ----
(***************************************************************************)
(* State-machine model of the foodgram backend (Django / DRF).             *)
(*                                                                         *)
(* The database tables are the state.  Each API handler is one action;    *)
(* the handler's permission checks, serializer validation and database    *)
(* statements are translated from backend/api/{views,serializers,         *)
(* permissions}.py and backend/{recipes,users}/models.py.                 *)
(*                                                                         *)
(* No handler of the repository opens a transaction (there is no          *)
(* transaction.atomic in the sources), so every ORM statement commits on  *)
(* its own (Django's autocommit).  Spec runs the requests one at a time;  *)
(* SpecStmt interleaves the statements of concurrent requests.            *)
(***************************************************************************)
EXTENDS Integers, Sequences, FiniteSets, TLC

VARIABLES
    User,               \* rows of users.User (ids)
    Ingredient,         \* rows of recipes.Ingredient
    Recipe,             \* rows of recipes.Recipe
    RecipeIngredient,  \* rows of recipes.RecipeIngredient
    Favorite,           \* rows of recipes.Favorite
    ShoppingCart,      \* rows of recipes.ShoppingCart
    Subscription,       \* rows of users.Subscription
    next_recipe_id,     \* the auto-increment primary key of Recipe
    next_ingredient_id, \* the auto-increment primary key of Ingredient
    db_range_check,     \* whether the database backend rejects integers
                        \* that do not fit a smallint column
    inflight,           \* requests whose handler is between two statements
    last                \* the last request handled and its response

tables == <<User, Ingredient, Recipe, RecipeIngredient, Favorite,
            ShoppingCart, Subscription, next_recipe_id, next_ingredient_id>>

vars == <<User, Ingredient, Recipe, RecipeIngredient, Favorite,
          ShoppingCart, Subscription, next_recipe_id, next_ingredient_id,
          db_range_check, inflight, last>>

(***************************************************************************)
(* Bounds and input domains                                                *)
(***************************************************************************)
MaxRecipeId == 1        \* recipes created in one behaviour
MaxItems == 2           \* length of a submitted ingredients list
MaxInflight == 2        \* concurrent requests in SpecStmt
MaxCreated == 3         \* timestamps of Subscription.created in one behaviour

\* recipes/models.py
MIN_COOKING_TIME == 1
MAX_COOKING_TIME == 32000
MIN_INGREDIENT_AMOUNT == 1
MAX_INGREDIENT_AMOUNT == 32000
\* the largest value a (Positive)SmallIntegerField column holds on every
\* backend
SMALLINT_MAX == 32767

Anonymous == 0
UserIds == {1, 2, 3}
Requesters == {Anonymous} \cup UserIds
\* User.is_staff (AbstractUser): user 3 is the administrator
is_staff(u) == u = 3
is_authenticated(u) == u /= Anonymous /\ u \in User

IngredientPks == {1, 2}
Catalog ==
    { [id |-> 1, name |-> "egg", measurement_unit |-> "pc"],
      [id |-> 2, name |-> "sugar", measurement_unit |-> "g"],
      [id |-> 3, name |-> "sugar", measurement_unit |-> "kg"] }

NameValues == {"a", "b"}
CookingTimeValues == {0, 1, 32000, 32001, 32768}
AmountValues == {0, 1, 32000, 32001, 32768}

RecipeFields == {"name", "cooking_time", "ingredients"}

SeqsUpTo(S, n) == UNION { [1..k -> S] : k \in 0..n }

Items(pks, amounts) == [id : pks, amount : amounts]

\* request bodies: every subset of the fields may be present
Payloads(names, times, lists) ==
    { [f \in F |-> d[f]] :
        d \in [name : names, cooking_time : times, ingredients : lists],
        F \in SUBSET RecipeFields }

NoData == [f \in {} |-> 0]

(***************************************************************************)
(* api/permissions.py                                                      *)
(***************************************************************************)
SAFE_METHODS == {"GET", "HEAD", "OPTIONS"}

\* mutant of has_permission: the request is let through whoever sends it
has_permission_anyone(u, method) == TRUE

has_permission(u, method) ==
    method \in SAFE_METHODS \/ is_authenticated(u)

\* mutant of has_object_permission: the author is not compared
has_object_permission_anyone(u, method, obj) == TRUE

has_object_permission(u, method, obj) ==
    IF method \in SAFE_METHODS THEN TRUE
    ELSE obj.author = u \/ is_staff(u)

\* rest_framework.permissions.IsAuthenticated, named by the actions
IsAuthenticated(u) == is_authenticated(u)

(***************************************************************************)
(* api/serializers.py : RecipeCreateSerializer validation                  *)
(***************************************************************************)
Has(data, f) == f \in DOMAIN data

IngredientIdsOf(value) == [k \in 1..Len(value) |-> value[k].id]
Range(s) == { s[k] : k \in 1..Len(s) }

\* mutants of validate_ingredients: no check at all; no check for repeats
validate_ingredients_anything(value) == TRUE
validate_ingredients_repeats(value) == value /= <<>>

\* validate_ingredients: TRUE when the list passes
validate_ingredients(value) ==
    IF value = <<>> THEN FALSE
    ELSE LET ingredient_ids == IngredientIdsOf(value)
         IN  Len(ingredient_ids) = Cardinality(Range(ingredient_ids))

\* RecipeIngredientCreateSerializer: one item of the list
item_is_valid(item) ==
    /\ \E i \in Ingredient : i.id = item.id
    /\ item.amount >= 1

\* the fields of the body that is_valid() reports an error for
errors(data, partial) ==
    { f \in RecipeFields : ~Has(data, f) /\ ~partial }
    \cup { f \in {"cooking_time"} : Has(data, f) /\ data[f] < 1 }
    \cup { f \in {"ingredients"} :
             /\ Has(data, f)
             /\ \/ \E k \in 1..Len(data[f]) : ~item_is_valid(data[f][k])
                \/ ~validate_ingredients(data[f]) }

(***************************************************************************)
(* Database statements                                                     *)
(***************************************************************************)
\* a smallint column takes the value
fits_smallint(v) == v <= SMALLINT_MAX \/ ~db_range_check

RecipeOf(pk) == CHOOSE r \in Recipe : r.id = pk
RecipeExists(pk) == \E r \in Recipe : r.id = pk

\* mutant of rows_of: every row gets the amount of the first item
rows_of_first_amount(pk, ingredients_data) ==
    { [recipe |-> pk,
       ingredient |-> ingredients_data[k].id,
       amount |-> ingredients_data[1].amount] : k \in 1..Len(ingredients_data) }

rows_of(pk, ingredients_data) ==
    { [recipe |-> pk,
       ingredient |-> ingredients_data[k].id,
       amount |-> ingredients_data[k].amount] : k \in 1..Len(ingredients_data) }

\* the INSERT of bulk_create is accepted by the database: column ranges,
\* the foreign keys and unique_recipe_ingredient
bulk_create_error(recipes, rows, pk, ingredients_data) ==
    IF \E k \in 1..Len(ingredients_data) :
          ~fits_smallint(ingredients_data[k].amount)
    THEN "DataError"
    ELSE IF \/ ~\E r \in recipes : r.id = pk
            \/ \E k \in 1..Len(ingredients_data) :
                  ~\E i \in Ingredient : i.id = ingredients_data[k].id
            \/ \E k \in 1..Len(ingredients_data) :
                  \E row \in rows : /\ row.recipe = pk
                                    /\ row.ingredient = ingredients_data[k].id
            \/ \E j, k \in 1..Len(ingredients_data) :
                  j /= k /\ ingredients_data[j].id = ingredients_data[k].id
    THEN "IntegrityError"
    ELSE "ok"

\* create_ingredients: RecipeIngredient.objects.bulk_create(...)
create_ingredients(recipes, rows, pk, ingredients_data) ==
    IF bulk_create_error(recipes, rows, pk, ingredients_data) = "ok"
    THEN rows \cup rows_of(pk, ingredients_data)
    ELSE rows

\* mutant of delete_ingredients: the old rows stay
delete_ingredients_nothing(rows, pk) == rows

\* instance.recipe_ingredients.all().delete()
delete_ingredients(rows, pk) == { row \in rows : row.recipe /= pk }

(***************************************************************************)
(* Responses                                                               *)
(***************************************************************************)
\* RecipeListSerializer over the rows `rows` of RecipeIngredient
representation(u, r, rows) ==
    [ id |-> r.id,
      author |-> r.author,
      name |-> r.name,
      cooking_time |-> r.cooking_time,
      ingredients |->
          { [id |-> i.id, name |-> i.name,
             measurement_unit |-> i.measurement_unit, amount |-> row.amount] :
             <<row, i>> \in { p \in rows \X Ingredient :
                                 /\ p[1].recipe = r.id
                                 /\ p[1].ingredient = p[2].id } },
      is_favorited |->
          is_authenticated(u) /\ [user |-> u, recipe |-> r.id] \in Favorite,
      is_in_shopping_cart |->
          is_authenticated(u)
          /\ [user |-> u, recipe |-> r.id] \in ShoppingCart ]

NoBody == [f \in {} |-> 0]

Response(op, u, pk, partial, data, status, flds, body) ==
    [ op |-> op, user |-> u, pk |-> pk, partial |-> partial, data |-> data,
      status |-> status, errors |-> flds, body |-> body ]

Init ==
    /\ User = UserIds
    /\ Ingredient = Catalog
    /\ Recipe = {}
    /\ RecipeIngredient = {}
    /\ Favorite = {}
    /\ ShoppingCart = {}
    /\ Subscription = {}
    /\ next_recipe_id = 1
    /\ next_ingredient_id = 1 + Cardinality(Catalog)
    /\ db_range_check \in BOOLEAN
    /\ inflight = [s \in 1..MaxInflight |-> [pc |-> "idle"]]
    /\ last = Response("none", Anonymous, 0, FALSE, NoData, "none", {}, NoBody)

\* what a serializer method did: the exception it raised ("ok" for none)
\* and the two tables it writes, as its statements left them
Outcome(raised, flds, recipes, rows, instance) ==
    [ raised |-> raised, errors |-> flds, Recipe |-> recipes,
      RecipeIngredient |-> rows, instance |-> instance ]

\* RecipeCreateSerializer.create
serializer_create(u, validated_data) ==
    LET ingredients_data == validated_data.ingredients
        new == [id |-> next_recipe_id, author |-> u,
                name |-> validated_data.name,
                cooking_time |-> validated_data.cooking_time]
    IN
    IF ~fits_smallint(new.cooking_time)
    THEN \* Recipe.objects.create is rejected by the database
         Outcome("DataError", {}, Recipe, RecipeIngredient, new)
    ELSE \* Recipe.objects.create, then create_ingredients
         LET recipes == Recipe \cup {new} IN
         Outcome(bulk_create_error(recipes, RecipeIngredient, new.id,
                                   ingredients_data),
                 {}, recipes,
                 create_ingredients(recipes, RecipeIngredient, new.id,
                                    ingredients_data),
                 new)

\* mutant of to_internal_value: author is read from the body as well
to_internal_value_with_author(data) == data

\* validated_data: the fields of the body that the serializer writes;
\* author is declared read_only and is left out
to_internal_value(data) == [f \in DOMAIN data \cap RecipeFields |-> data[f]]

\* the instance after `for attr, value in validated_data.items(): setattr(...)`
set_attrs(instance, data) ==
    [ instance EXCEPT
        !.author = IF Has(data, "author") THEN data.author ELSE @,
        !.name = IF Has(data, "name") THEN data.name ELSE @,
        !.cooking_time =
            IF Has(data, "cooking_time") THEN data.cooking_time ELSE @ ]

\* mutant of serializer_update: a body without ingredients updates the other
\* fields and keeps the old rows
serializer_update_keeps_items(instance, validated_data) ==
    LET saved == set_attrs(instance, validated_data)
        recipes == { r \in Recipe : r.id /= instance.id } \cup {saved}
        deleted == delete_ingredients(RecipeIngredient, instance.id)
    IN
    IF ~Has(validated_data, "ingredients")
    THEN Outcome("ok", {}, recipes, RecipeIngredient, saved)
    ELSE Outcome(bulk_create_error(recipes, deleted, instance.id,
                                   validated_data.ingredients),
                 {}, recipes,
                 create_ingredients(recipes, deleted, instance.id,
                                    validated_data.ingredients),
                 saved)

\* RecipeCreateSerializer.update
serializer_update(instance, validated_data) ==
    IF ~Has(validated_data, "ingredients")
    THEN Outcome("ValidationError", {"ingredients"}, Recipe, RecipeIngredient,
                 instance)
    ELSE LET ingredients_data == validated_data.ingredients
             saved == set_attrs(instance, validated_data)
             recipes == { r \in Recipe : r.id /= instance.id } \cup {saved}
             deleted == delete_ingredients(RecipeIngredient, instance.id)
         IN
         IF ~fits_smallint(saved.cooking_time)
         THEN \* instance.save() is rejected by the database
              Outcome("DataError", {}, Recipe, RecipeIngredient, instance)
         ELSE \* instance.save(); delete the old rows; create_ingredients
              Outcome(bulk_create_error(recipes, deleted, instance.id,
                                        ingredients_data),
                      {}, recipes,
                      create_ingredients(recipes, deleted, instance.id,
                                         ingredients_data),
                      saved)

(***************************************************************************)
(* api/views.py : RecipeViewSet, one request at a time                     *)
(***************************************************************************)
\* POST /recipes/
create(u, data) ==
    /\ next_recipe_id <= MaxRecipeId
    /\ LET reply(status, flds, body) ==
               Response("create", u, 0, FALSE, data, status, flds, body)
       IN
       IF ~has_permission(u, "POST")
       THEN /\ last' = reply("NotAuthenticated", {}, NoBody)
            /\ UNCHANGED <<tables, db_range_check, inflight>>
       ELSE IF errors(data, FALSE) /= {}
       THEN /\ last' = reply("ValidationError", errors(data, FALSE), NoBody)
            /\ UNCHANGED <<tables, db_range_check, inflight>>
       ELSE LET done == serializer_create(u, to_internal_value(data)) IN
            /\ Recipe' = done.Recipe
            /\ RecipeIngredient' = done.RecipeIngredient
            /\ next_recipe_id' =
                   IF done.Recipe = Recipe THEN next_recipe_id
                   ELSE next_recipe_id + 1
            /\ last' = IF done.raised = "ok"
                       THEN reply("Created", {},
                                  representation(u, done.instance,
                                                 RecipeIngredient'))
                       ELSE reply(done.raised, done.errors, NoBody)
            /\ UNCHANGED <<User, Ingredient, Favorite, ShoppingCart,
                           next_ingredient_id,
                           Subscription, db_range_check, inflight>>

\* PUT (partial = FALSE) and PATCH (partial = TRUE) /recipes/{pk}/
update(u, pk, partial, data) ==
    LET reply(status, flds, body) ==
            Response("update", u, pk, partial, data, status, flds, body)
    IN
    IF ~has_permission(u, "PATCH")
    THEN /\ last' = reply("NotAuthenticated", {}, NoBody)
         /\ UNCHANGED <<tables, db_range_check, inflight>>
    ELSE IF ~RecipeExists(pk)
    THEN /\ last' = reply("NotFound", {}, NoBody)
         /\ UNCHANGED <<tables, db_range_check, inflight>>
    ELSE IF ~has_object_permission(u, "PATCH", RecipeOf(pk))
    THEN /\ last' = reply("PermissionDenied", {}, NoBody)
         /\ UNCHANGED <<tables, db_range_check, inflight>>
    ELSE IF errors(data, partial) /= {}
    THEN /\ last' = reply("ValidationError", errors(data, partial), NoBody)
         /\ UNCHANGED <<tables, db_range_check, inflight>>
    ELSE LET done ==
                 serializer_update(RecipeOf(pk), to_internal_value(data))
         IN
         /\ Recipe' = done.Recipe
         /\ RecipeIngredient' = done.RecipeIngredient
         /\ last' = IF done.raised = "ok"
                    THEN reply("OK", {},
                               representation(u, done.instance,
                                              RecipeIngredient'))
                    ELSE reply(done.raised, done.errors, NoBody)
         /\ UNCHANGED <<User, Ingredient, Favorite, ShoppingCart,
                        Subscription, next_recipe_id,
                        next_ingredient_id, db_range_check,
                        inflight>>

\* DELETE /recipes/{pk}/ : instance.delete() with the on_delete=CASCADE rows
destroy(u, pk) ==
    LET reply(status) ==
            Response("destroy", u, pk, FALSE, NoData, status, {}, NoBody)
    IN
    IF ~has_permission(u, "DELETE")
    THEN /\ last' = reply("NotAuthenticated")
         /\ UNCHANGED <<tables, db_range_check, inflight>>
    ELSE IF ~RecipeExists(pk)
    THEN /\ last' = reply("NotFound")
         /\ UNCHANGED <<tables, db_range_check, inflight>>
    ELSE IF ~has_object_permission(u, "DELETE", RecipeOf(pk))
    THEN /\ last' = reply("PermissionDenied")
         /\ UNCHANGED <<tables, db_range_check, inflight>>
    ELSE /\ Recipe' = Recipe \ {RecipeOf(pk)}
         /\ RecipeIngredient' = delete_ingredients(RecipeIngredient, pk)
         /\ Favorite' = { f \in Favorite : f.recipe /= pk }
         /\ ShoppingCart' = { c \in ShoppingCart : c.recipe /= pk }
         /\ last' = reply("NoContent")
         /\ UNCHANGED <<User, Ingredient, Subscription, next_recipe_id,
                        next_ingredient_id,
                        db_range_check, inflight>>

\* GET /recipes/{pk}/
retrieve(u, pk) ==
    LET reply(status, body) ==
            Response("retrieve", u, pk, FALSE, NoData, status, {}, body)
    IN
    /\ last' = IF ~has_permission(u, "GET") THEN reply("NotAuthenticated", NoBody)
               ELSE IF ~RecipeExists(pk) THEN reply("NotFound", NoBody)
               ELSE reply("OK", representation(u, RecipeOf(pk),
                                               RecipeIngredient))
    /\ UNCHANGED <<tables, db_range_check, inflight>>

\* GET /recipes/
list(u) ==
    /\ last' = IF ~has_permission(u, "GET")
               THEN Response("list", u, 0, FALSE, NoData, "NotAuthenticated",
                             {}, NoBody)
               ELSE Response("list", u, 0, FALSE, NoData, "OK", {},
                             [results |->
                                { representation(u, r, RecipeIngredient) :
                                    r \in Recipe }])
    /\ UNCHANGED <<tables, db_range_check, inflight>>

\* RecipeGetShortLinkSerializer._encode_base62
alphabet ==
    << "0", "1", "2", "3", "4", "5", "6", "7", "8", "9",
       "a", "b", "c", "d", "e", "f", "g", "h", "i", "j", "k", "l", "m",
       "n", "o", "p", "q", "r", "s", "t", "u", "v", "w", "x", "y", "z",
       "A", "B", "C", "D", "E", "F", "G", "H", "I", "J", "K", "L", "M",
       "N", "O", "P", "Q", "R", "S", "T", "U", "V", "W", "X", "Y", "Z" >>

RECURSIVE result_not_reversed(_)
\* mutant of reversed_result: the digits in the order the loop appends them
result_not_reversed(num) ==
    IF num = 0 THEN <<>>
    ELSE <<alphabet[(num % Len(alphabet)) + 1]>>
         \o result_not_reversed(num \div Len(alphabet))

\* mutant of encode_base62: only the first digit the loop appends
encode_base62_one_digit(num) == <<alphabet[(num % Len(alphabet)) + 1]>>

RECURSIVE reversed_result(_)
\* "".join(reversed(result)) for the result the while loop builds from num
reversed_result(num) ==
    IF num = 0 THEN <<>>
    ELSE Append(reversed_result(num \div Len(alphabet)),
                alphabet[(num % Len(alphabet)) + 1])

encode_base62(num) ==
    IF num = 0 THEN <<alphabet[1]>> ELSE reversed_result(num)

\* GET /recipes/{pk}/get-link/
get_link(u, pk) ==
    LET reply(status, body) ==
            Response("get_link", u, pk, FALSE, NoData, status, {}, body)
    IN
    /\ last' = IF ~has_permission(u, "GET") THEN reply("NotAuthenticated", NoBody)
               ELSE IF ~RecipeExists(pk) THEN reply("NotFound", NoBody)
               ELSE reply("OK", [short_link |->
                                    <<"/", "s", "/">>
                                    \o encode_base62(RecipeOf(pk).id)])
    /\ UNCHANGED <<tables, db_range_check, inflight>>

\* RecipeGetShortLinkSerializer._encode_base62 applied to num on its own
\* (a static method: it reads and writes no table)
short_code(num) ==
    /\ last' = Response("short_code", Anonymous, num, FALSE, NoData, "OK",
                        {}, [short_code |-> encode_base62(num)])
    /\ UNCHANGED <<tables, db_range_check, inflight>>

(***************************************************************************)
(* api/views.py : the membership actions (permission_classes =            *)
(* [IsAuthenticated]); method is "POST" or "DELETE"                        *)
(***************************************************************************)
ErrorBody(message) == [errors |-> message]

\* mutants of exists: the row is never found; the row is always found
exists_never(queryset) == FALSE
exists_always(queryset) == TRUE

\* QuerySet.exists()
exists(queryset) == queryset /= {}

\* Favorite / ShoppingCart .objects.filter(user=user, recipe=recipe)
filter_user_recipe(table, user, recipe) ==
    { row \in table : row.user = user /\ row.recipe = recipe }

\* Subscription.objects.filter(user=user, author=author)
filter_user_author(user, author) ==
    { row \in Subscription : row.user = user /\ row.author = author }

\* the UniqueConstraint of a membership table, checked by the INSERT
unique_error(queryset) ==
    IF queryset /= {} THEN "IntegrityError" ELSE "ok"

\* Subscription.Meta.constraints, checked by the INSERT:
\* unique_subscription and prevent_self_subscription
subscription_insert_error(user, author) ==
    IF user = author THEN "IntegrityError"
    ELSE unique_error(filter_user_author(user, author))

\* Subscription.created (auto_now_add): later than every stored timestamp
now ==
    IF Subscription = {} THEN 1
    ELSE 1 + CHOOSE c \in { row.created : row \in Subscription } :
                 \A row \in Subscription : row.created <= c

\* mutant of is_self: the requester is never taken for the author
is_self_never(user, author) == FALSE

\* subscribe: user == author
is_self(user, author) == user = author

\* RecipeMinifiedSerializer
minified(r) == [id |-> r.id, name |-> r.name, cooking_time |-> r.cooking_time]

\* POST, DELETE /recipes/{pk}/favorite/
favorite(u, pk, method) ==
    LET reply(status, body) ==
            Response("favorite", u, pk, method = "DELETE", NoData, status, {},
                     body)
        row == [user |-> u, recipe |-> pk]
    IN
    IF ~IsAuthenticated(u)
    THEN /\ last' = reply("NotAuthenticated", NoBody)
         /\ UNCHANGED <<tables, db_range_check, inflight>>
    ELSE IF ~RecipeExists(pk)
    THEN /\ last' = reply("NotFound", NoBody)
         /\ UNCHANGED <<tables, db_range_check, inflight>>
    ELSE IF method = "POST"
    THEN IF exists(filter_user_recipe(Favorite, u, pk))
         THEN /\ last' = reply("BadRequest", ErrorBody("already in favorites"))
              /\ UNCHANGED <<tables, db_range_check, inflight>>
         ELSE IF unique_error(filter_user_recipe(Favorite, u, pk)) /= "ok"
         THEN /\ last' = reply("IntegrityError", NoBody)
              /\ UNCHANGED <<tables, db_range_check, inflight>>
         ELSE /\ Favorite' = Favorite \cup {row}
              /\ last' = reply("Created", minified(RecipeOf(pk)))
              /\ UNCHANGED <<User, Ingredient, Recipe, RecipeIngredient,
                             ShoppingCart, Subscription, next_recipe_id,
                             next_ingredient_id,
                             db_range_check, inflight>>
    ELSE IF ~exists(filter_user_recipe(Favorite, u, pk))
         THEN /\ last' = reply("BadRequest", ErrorBody("not in favorites"))
              /\ UNCHANGED <<tables, db_range_check, inflight>>
         ELSE /\ Favorite' = Favorite \ filter_user_recipe(Favorite, u, pk)
              /\ last' = reply("NoContent", NoBody)
              /\ UNCHANGED <<User, Ingredient, Recipe, RecipeIngredient,
                             ShoppingCart, Subscription, next_recipe_id,
                             next_ingredient_id,
                             db_range_check, inflight>>

\* POST, DELETE /recipes/{pk}/shopping_cart/
shopping_cart(u, pk, method) ==
    LET reply(status, body) ==
            Response("shopping_cart", u, pk, method = "DELETE", NoData, status,
                     {}, body)
        row == [user |-> u, recipe |-> pk]
    IN
    IF ~IsAuthenticated(u)
    THEN /\ last' = reply("NotAuthenticated", NoBody)
         /\ UNCHANGED <<tables, db_range_check, inflight>>
    ELSE IF ~RecipeExists(pk)
    THEN /\ last' = reply("NotFound", NoBody)
         /\ UNCHANGED <<tables, db_range_check, inflight>>
    ELSE IF method = "POST"
    THEN IF exists(filter_user_recipe(ShoppingCart, u, pk))
         THEN /\ last' = reply("BadRequest", ErrorBody("already in cart"))
              /\ UNCHANGED <<tables, db_range_check, inflight>>
         ELSE IF unique_error(filter_user_recipe(ShoppingCart, u, pk)) /= "ok"
         THEN /\ last' = reply("IntegrityError", NoBody)
              /\ UNCHANGED <<tables, db_range_check, inflight>>
         ELSE /\ ShoppingCart' = ShoppingCart \cup {row}
              /\ last' = reply("Created", minified(RecipeOf(pk)))
              /\ UNCHANGED <<User, Ingredient, Recipe, RecipeIngredient,
                             Favorite, Subscription, next_recipe_id,
                             next_ingredient_id,
                             db_range_check, inflight>>
    ELSE IF ~exists(filter_user_recipe(ShoppingCart, u, pk))
         THEN /\ last' = reply("BadRequest", ErrorBody("not in cart"))
              /\ UNCHANGED <<tables, db_range_check, inflight>>
         ELSE /\ ShoppingCart' = ShoppingCart \ filter_user_recipe(ShoppingCart, u, pk)
              /\ last' = reply("NoContent", NoBody)
              /\ UNCHANGED <<User, Ingredient, Recipe, RecipeIngredient,
                             Favorite, Subscription, next_recipe_id,
                             next_ingredient_id,
                             db_range_check, inflight>>

\* POST, DELETE /users/{id}/subscribe/
subscribe(u, id, method) ==
    LET reply(status, body) ==
            Response("subscribe", u, id, method = "DELETE", NoData, status, {},
                     body)
        row == [user |-> u, author |-> id, created |-> now]
    IN
    IF ~IsAuthenticated(u)
    THEN /\ last' = reply("NotAuthenticated", NoBody)
         /\ UNCHANGED <<tables, db_range_check, inflight>>
    ELSE IF id \notin User
    THEN /\ last' = reply("NotFound", NoBody)
         /\ UNCHANGED <<tables, db_range_check, inflight>>
    ELSE IF is_self(u, id)
    THEN /\ last' = reply("BadRequest", ErrorBody("self Subscription"))
         /\ UNCHANGED <<tables, db_range_check, inflight>>
    ELSE IF method = "POST"
    THEN IF exists(filter_user_author(u, id))
         THEN /\ last' = reply("BadRequest", ErrorBody("already subscribed"))
              /\ UNCHANGED <<tables, db_range_check, inflight>>
         ELSE IF subscription_insert_error(u, id) /= "ok"
         THEN /\ last' = reply(subscription_insert_error(u, id), NoBody)
              /\ UNCHANGED <<tables, db_range_check, inflight>>
         ELSE /\ row.created <= MaxCreated
              /\ Subscription' = Subscription \cup {row}
              /\ last' = reply("Created", [id |-> id])
              /\ UNCHANGED <<User, Ingredient, Recipe, RecipeIngredient,
                             Favorite, ShoppingCart, next_recipe_id,
                             next_ingredient_id,
                             db_range_check, inflight>>
    ELSE IF ~exists(filter_user_author(u, id))
         THEN /\ last' = reply("BadRequest", ErrorBody("not subscribed"))
              /\ UNCHANGED <<tables, db_range_check, inflight>>
         ELSE /\ Subscription' = Subscription \ filter_user_author(u, id)
              /\ last' = reply("NoContent", NoBody)
              /\ UNCHANGED <<User, Ingredient, Recipe, RecipeIngredient,
                             Favorite, ShoppingCart, next_recipe_id,
                             next_ingredient_id,
                             db_range_check, inflight>>

RECURSIVE order_by_id(_)
\* User.Meta.ordering = ["id"]: the ids of S in ascending order
order_by_id(S) ==
    IF S = {} THEN <<>>
    ELSE LET first == CHOOSE x \in S : \A y \in S : x <= y
         IN  <<first>> \o order_by_id(S \ {first})

\* GET /users/subscriptions/ : the authors as UserWithRecipesSerializer
\* renders them, reduced to their ids
subscriptions(u) ==
    LET reply(status, body) ==
            Response("subscriptions", u, 0, FALSE, NoData, status, {}, body)
        subscribed == { row \in Subscription : row.user = u }
        authors == { a \in User : a \in { row.author : row \in subscribed } }
    IN
    /\ last' = IF ~IsAuthenticated(u) THEN reply("NotAuthenticated", NoBody)
               ELSE reply("OK", [results |-> order_by_id(authors)])
    /\ UNCHANGED <<tables, db_range_check, inflight>>

(***************************************************************************)
(* api/views.py : RecipeViewSet.download_shopping_cart                     *)
(***************************************************************************)
\* str() of a non-negative integer, as the sequence of its characters
digits == <<"0", "1", "2", "3", "4", "5", "6", "7", "8", "9">>

RECURSIVE str(_)
str(n) ==
    IF n < 10 THEN <<digits[n + 1]>>
    ELSE Append(str(n \div 10), digits[(n % 10) + 1])

\* str(None), for a text and for a number
None == "None"
NoneChars == <<"N", "o", "n", "e">>

\* the database's order of the ingredient names of the catalogue
Collation == <<"egg", "sugar">>
name_rank(name) == CHOOSE k \in 1..Len(Collation) : Collation[k] = name

\* where ORDER BY ... ASC puts NULL: last on PostgreSQL, which also checks
\* the range of a smallint; first on SQLite, which does not
nulls_last == db_range_check

\* Recipe.objects.filter(id__in=shopping_cart.values("recipe_id"))
cart_recipes(u) ==
    { r \in Recipe : \E c \in ShoppingCart : c.user = u /\ c.recipe = r.id }

\* recipes LEFT OUTER JOIN recipe_ingredients JOIN ingredient: the rows
\* that have a line item
joined(recipes) ==
    { [recipe |-> row.recipe, name |-> i.name, unit |-> i.measurement_unit,
       amount |-> row.amount] :
        <<row, i>> \in { p \in RecipeIngredient \X Ingredient :
                           /\ p[1].ingredient = p[2].id
                           /\ \E r \in recipes : r.id = p[1].recipe } }

\* ... and the recipes without a line item, each a row of NULLs
unjoined(recipes) ==
    { r \in recipes : ~\E row \in RecipeIngredient : row.recipe = r.id }

RECURSIVE Sum(_)
\* Sum("recipe_ingredients__amount") over the rows of a group
Sum(rows) ==
    IF rows = {} THEN 0
    ELSE LET row == CHOOSE x \in rows : TRUE
         IN  row.amount + Sum(rows \ {row})

\* .values(name, unit).annotate(total_amount=Sum(amount)) for one group
annotate_total_amount(rows, key) ==
    Sum({ row \in rows : row.name = key[1] /\ row.unit = key[2] })

\* the groups of the query, as the loop formats them:
\* f"{name} ({unit}) — {amount}"
groups(recipes) ==
    { [name |-> key[1], unit |-> key[2],
       amount |-> str(annotate_total_amount(joined(recipes), key))] :
        key \in { <<row.name, row.unit>> : row \in joined(recipes) } }
    \cup (IF unjoined(recipes) = {} THEN {}
          ELSE {[name |-> None, unit |-> None, amount |-> NoneChars]})

\* ORDER BY name ASC places line x no later than line y
name_le(x, y) ==
    IF x.name = None THEN ~nulls_last \/ y.name = None
    ELSE IF y.name = None THEN nulls_last
    ELSE name_rank(x.name) <= name_rank(y.name)

\* .order_by("recipe_ingredients__ingredient__name"): the orders in which
\* the database may return the groups; groups of one name come in any
\* order
order_by_name(lines) ==
    { f \in [1..Cardinality(lines) -> lines] :
        /\ \A j, k \in DOMAIN f : j /= k => f[j] /= f[k]
        /\ \A j, k \in DOMAIN f : j < k => name_le(f[j], f[k]) }

\* GET /recipes/download_shopping_cart/ : the ingredient lines of the
\* report and the count of its footer
download_shopping_cart(u) ==
    LET reply(status, body) ==
            Response("download_shopping_cart", u, 0, FALSE, NoData, status,
                     {}, body)
    IN
    /\ IF ~IsAuthenticated(u)
       THEN last' = reply("NotAuthenticated", NoBody)
       ELSE \E ingredients \in order_by_name(groups(cart_recipes(u))) :
               last' = reply("OK", [lines |-> ingredients,
                                    count |-> Len(ingredients)])
    /\ UNCHANGED <<tables, db_range_check, inflight>>

(***************************************************************************)
(* The admin site (users/admin.py, recipes/admin.py): deleting a user or   *)
(* an ingredient.  Model.delete() collects the rows that reference the     *)
(* deleted one through on_delete=CASCADE and deletes them with it.         *)
(***************************************************************************)
\* mutant of on_delete_CASCADE: the referencing rows stay
on_delete_DO_NOTHING(rows, field, gone) == rows

\* the rows left after those whose `field` references a deleted row are
\* deleted
on_delete_CASCADE(rows, field, gone) == { row \in rows : row[field] \notin gone }

\* the admin site serves staff users only
has_admin_permission(u) == is_authenticated(u) /\ is_staff(u)

\* UserAdmin: delete the user `id`
delete_user(u, id) ==
    LET reply(status, body) ==
            Response("delete_user", u, id, FALSE, NoData, status, {}, body)
        recipes == on_delete_CASCADE(Recipe, "author", {id})
        gone == { r.id : r \in Recipe \ recipes }
        left(rows) == on_delete_CASCADE(
                          on_delete_CASCADE(rows, "user", {id}), "recipe", gone)
    IN
    IF ~has_admin_permission(u)
    THEN /\ last' = reply("PermissionDenied", NoBody)
         /\ UNCHANGED <<tables, db_range_check, inflight>>
    ELSE IF id \notin User
    THEN /\ last' = reply("NotFound", NoBody)
         /\ UNCHANGED <<tables, db_range_check, inflight>>
    ELSE /\ User' = User \ {id}
         /\ Recipe' = recipes
         /\ RecipeIngredient' = on_delete_CASCADE(RecipeIngredient, "recipe", gone)
         /\ Favorite' = left(Favorite)
         /\ ShoppingCart' = left(ShoppingCart)
         /\ Subscription' =
                on_delete_CASCADE(
                    on_delete_CASCADE(Subscription, "user", {id}), "author", {id})
         /\ last' = reply("NoContent",
                [deleted |->
                    1 + Cardinality(Recipe \ Recipe')
                      + Cardinality(RecipeIngredient \ RecipeIngredient')
                      + Cardinality(Favorite \ Favorite')
                      + Cardinality(ShoppingCart \ ShoppingCart')
                      + Cardinality(Subscription \ Subscription')])
         /\ UNCHANGED <<Ingredient, next_recipe_id,
                        next_ingredient_id, db_range_check, inflight>>

\* IngredientAdmin: delete the ingredient `pk`
delete_ingredient(u, pk) ==
    LET reply(status, body) ==
            Response("delete_ingredient", u, pk, FALSE, NoData, status, {},
                     body)
    IN
    IF ~has_admin_permission(u)
    THEN /\ last' = reply("PermissionDenied", NoBody)
         /\ UNCHANGED <<tables, db_range_check, inflight>>
    ELSE IF ~\E i \in Ingredient : i.id = pk
    THEN /\ last' = reply("NotFound", NoBody)
         /\ UNCHANGED <<tables, db_range_check, inflight>>
    ELSE /\ Ingredient' = { i \in Ingredient : i.id /= pk }
         /\ RecipeIngredient' =
                on_delete_CASCADE(RecipeIngredient, "ingredient", {pk})
         /\ last' = reply("NoContent",
                [deleted |->
                    1 + Cardinality(RecipeIngredient \ RecipeIngredient')])
         /\ UNCHANGED <<User, Recipe, Favorite, ShoppingCart, Subscription,
                        next_recipe_id,
                        next_ingredient_id, db_range_check, inflight>>

(***************************************************************************)
(* Specifications.  The handlers above are driven over input domains small *)
(* enough to enumerate; each specification names its own.                  *)
(***************************************************************************)
RecipePks == 1..MaxRecipeId

\* the requests of RecipeViewSet over requesters R and request bodies P
RecipeApi(R, P) ==
    \/ \E u \in R, d \in P : create(u, d)
    \/ \E u \in R, pk \in RecipePks, partial \in BOOLEAN, d \in P :
          update(u, pk, partial, d)
    \/ \E u \in R, pk \in RecipePks : destroy(u, pk)
    \/ \E u \in R, pk \in RecipePks : retrieve(u, pk)
    \/ \E u \in R : list(u)
    \/ \E u \in R, pk \in RecipePks : get_link(u, pk)

\* No value of the domains of SpecRecipe exceeds SMALLINT_MAX, so the
\* backend's range check never decides anything there.
InitRangeChecked == Init /\ db_range_check

(***************************************************************************)
(* Spec: every kind of requester (anonymous, the author, another user, an  *)
(* administrator) against the recipe and membership endpoints.  The        *)
(* request bodies are two complete valid ones and an incomplete one.        *)
(***************************************************************************)
Methods == {"POST", "DELETE"}

PayloadA ==
    [name |-> "a", cooking_time |-> 1,
     ingredients |-> <<[id |-> 1, amount |-> 1]>>]
PayloadB ==
    [name |-> "b", cooking_time |-> 32000,
     ingredients |-> <<[id |-> 2, amount |-> 32000]>>]

AccessPayloads == {PayloadA, PayloadB, [f \in {"name"} |-> PayloadB[f]]}

\* the users who use the membership endpoints in Spec
Members == {Anonymous, 2}

Next ==
    \/ RecipeApi(Requesters, AccessPayloads)
    \/ \E u \in Members, pk \in RecipePks, m \in Methods : favorite(u, pk, m)
    \/ \E u \in Members, pk \in RecipePks, m \in Methods :
          shopping_cart(u, pk, m)
    \/ \E u \in Members, id \in UserIds, m \in Methods : subscribe(u, id, m)

Spec == InitRangeChecked /\ [][Next]_vars

(***************************************************************************)
(* SpecRecipe: the recipe aggregate driven by its author, with request     *)
(* bodies over every combination of present and absent fields and every    *)
(* ingredients list (empty, repeated, reordered) up to MaxItems.           *)
(***************************************************************************)
RecipeAuthors == {1}

RecipeItems == Items({1}, {1, 32000}) \cup Items({2}, {1})

IngredientLists == SeqsUpTo(RecipeItems, MaxItems)

RecipePayloads == Payloads(NameValues, {0, 1}, IngredientLists)

NextRecipe == RecipeApi(RecipeAuthors, RecipePayloads)

SpecRecipe == InitRangeChecked /\ [][NextRecipe]_vars

(***************************************************************************)
(* SpecRange: complete request bodies whose cooking_time and amounts run   *)
(* over the edges of 1..32000 and of the smallint column, on either kind   *)
(* of backend.                                                             *)
(***************************************************************************)
RangeLists ==
    { <<[id |-> 1, amount |-> a]>> : a \in AmountValues }
    \cup { <<[id |-> 1, amount |-> 1], [id |-> 2, amount |-> a]>> :
             a \in AmountValues }

RangePayloads ==
    [name : {"a"}, cooking_time : CookingTimeValues, ingredients : RangeLists]

NextRange == RecipeApi(RecipeAuthors, RangePayloads)

SpecRange == Init /\ [][NextRange]_vars

(***************************************************************************)
(* SpecStmt: the statements of RecipeCreateSerializer.create and .update   *)
(* of concurrent requests interleave, each statement committing on its     *)
(* own; a reader runs between any two of them.  A slot of inflight holds   *)
(* a handler that has run its first statement and not yet its last.       *)
(***************************************************************************)
Slots == 1..MaxInflight

Idle == [pc |-> "idle"]

Running(pc, op, u, pk, partial, data, instance) ==
    [ pc |-> pc, op |-> op, user |-> u, pk |-> pk, partial |-> partial,
      data |-> data, instance |-> instance ]

\* POST /recipes/ up to and including Recipe.objects.create(**validated_data)
begin_create(s, u, data) ==
    /\ inflight[s].pc = "idle"
    /\ next_recipe_id <= MaxRecipeId
    /\ LET reply(status, flds) ==
               Response("create", u, 0, FALSE, data, status, flds, NoBody)
           recipe == [id |-> next_recipe_id, author |-> u,
                      name |-> data.name,
                      cooking_time |-> data.cooking_time]
       IN
       IF ~has_permission(u, "POST")
       THEN /\ last' = reply("NotAuthenticated", {})
            /\ UNCHANGED <<tables, db_range_check, inflight>>
       ELSE IF errors(data, FALSE) /= {}
       THEN /\ last' = reply("ValidationError", errors(data, FALSE))
            /\ UNCHANGED <<tables, db_range_check, inflight>>
       ELSE IF ~fits_smallint(recipe.cooking_time)
       THEN /\ last' = reply("DataError", {})
            /\ UNCHANGED <<tables, db_range_check, inflight>>
       ELSE /\ Recipe' = Recipe \cup {recipe}
            /\ next_recipe_id' = next_recipe_id + 1
            /\ inflight' = [inflight EXCEPT ![s] =
                   Running("create_ingredients", "create", u, recipe.id,
                           FALSE, data, recipe)]
            /\ UNCHANGED <<User, Ingredient, RecipeIngredient, Favorite,
                           next_ingredient_id,
                           ShoppingCart, Subscription, db_range_check, last>>

\* PUT, PATCH /recipes/{pk}/ up to and including instance.save()
begin_update(s, u, pk, partial, data) ==
    /\ inflight[s].pc = "idle"
    /\ LET reply(status, flds) ==
               Response("update", u, pk, partial, data, status, flds, NoBody)
       IN
       IF ~has_permission(u, "PATCH")
       THEN /\ last' = reply("NotAuthenticated", {})
            /\ UNCHANGED <<tables, db_range_check, inflight>>
       ELSE IF ~RecipeExists(pk)
       THEN /\ last' = reply("NotFound", {})
            /\ UNCHANGED <<tables, db_range_check, inflight>>
       ELSE IF ~has_object_permission(u, "PATCH", RecipeOf(pk))
       THEN /\ last' = reply("PermissionDenied", {})
            /\ UNCHANGED <<tables, db_range_check, inflight>>
       ELSE IF errors(data, partial) /= {}
       THEN /\ last' = reply("ValidationError", errors(data, partial))
            /\ UNCHANGED <<tables, db_range_check, inflight>>
       ELSE IF ~Has(data, "ingredients")
       THEN /\ last' = reply("ValidationError", {"ingredients"})
            /\ UNCHANGED <<tables, db_range_check, inflight>>
       ELSE LET saved == set_attrs(RecipeOf(pk), to_internal_value(data))
            IN
            IF ~fits_smallint(saved.cooking_time)
            THEN /\ last' = reply("DataError", {})
                 /\ UNCHANGED <<tables, db_range_check, inflight>>
            ELSE /\ Recipe' = { r \in Recipe : r.id /= pk } \cup {saved}
                 /\ inflight' = [inflight EXCEPT ![s] =
                        Running("delete", "update", u, pk, partial, data,
                                saved)]
                 /\ UNCHANGED <<User, Ingredient, RecipeIngredient, Favorite,
                                ShoppingCart, Subscription, next_recipe_id,
                                next_ingredient_id,
                                db_range_check, last>>

\* update: instance.recipe_ingredients.all().delete()
delete_recipe_ingredients(s) ==
    /\ inflight[s].pc = "delete"
    /\ RecipeIngredient' = delete_ingredients(RecipeIngredient, inflight[s].pk)
    /\ inflight' = [inflight EXCEPT ![s].pc = "create_ingredients"]
    /\ UNCHANGED <<User, Ingredient, Recipe, Favorite, ShoppingCart,
                   Subscription, next_recipe_id,
                   next_ingredient_id, db_range_check, last>>

\* create and update: self.create_ingredients(...), then the response
bulk_create(s) ==
    /\ inflight[s].pc = "create_ingredients"
    /\ LET h == inflight[s]
           raised == bulk_create_error(Recipe, RecipeIngredient, h.pk,
                                       h.data.ingredients)
           reply(status, body) ==
               Response(h.op, h.user, h.pk, h.partial, h.data, status, {},
                        body)
       IN
       /\ RecipeIngredient' = create_ingredients(Recipe, RecipeIngredient,
                                                 h.pk, h.data.ingredients)
       /\ last' = IF raised /= "ok" THEN reply(raised, NoBody)
                  ELSE reply(IF h.op = "create" THEN "Created" ELSE "OK",
                             representation(h.user, h.instance,
                                            RecipeIngredient'))
    /\ inflight' = [inflight EXCEPT ![s] = Idle]
    /\ UNCHANGED <<User, Ingredient, Recipe, Favorite, ShoppingCart,
                   Subscription, next_recipe_id,
                   next_ingredient_id, db_range_check>>

\* the writers send complete bodies that pass validation and fit the columns
StmtPayloads == {PayloadA, PayloadB}

Readers == {Anonymous}

NextStmt ==
    \/ \E s \in Slots, u \in RecipeAuthors, d \in StmtPayloads :
          begin_create(s, u, d)
    \/ \E s \in Slots, u \in RecipeAuthors, pk \in RecipePks,
          partial \in BOOLEAN, d \in StmtPayloads :
          begin_update(s, u, pk, partial, d)
    \/ \E s \in Slots : delete_recipe_ingredients(s)
    \/ \E s \in Slots : bulk_create(s)
    \/ \E u \in Readers, pk \in RecipePks : retrieve(u, pk)

SpecStmt == InitRangeChecked /\ [][NextStmt]_vars

(***************************************************************************)
(* SpecMember: the membership endpoints (favorite, shopping_cart,          *)
(* subscribe, subscriptions) with the deletions of recipes, users and      *)
(* ingredients, requests handled one at a time.                            *)
(***************************************************************************)
Staff == {3}

MemberUsers == {2, 3}

NextMember ==
    \/ \E u \in RecipeAuthors : create(u, PayloadA)
    \/ \E u \in RecipeAuthors, pk \in RecipePks : destroy(u, pk)
    \/ \E u \in MemberUsers, pk \in RecipePks, m \in Methods :
          favorite(u, pk, m)
    \/ \E u \in MemberUsers, pk \in RecipePks, m \in Methods :
          shopping_cart(u, pk, m)
    \/ \E u \in MemberUsers, id \in UserIds, m \in Methods :
          subscribe(u, id, m)
    \/ \E u \in MemberUsers : subscriptions(u)
    \/ \E u \in Staff, id \in UserIds : delete_user(u, id)
    \/ \E u \in Staff, pk \in IngredientPks : delete_ingredient(u, pk)

SpecMember == InitRangeChecked /\ [][NextMember]_vars

(***************************************************************************)
(* SpecAddRace: the two statements of a membership Add (the exists()       *)
(* query, then objects.create) of concurrent requests interleave.          *)
(***************************************************************************)
\* POST favorite / shopping_cart / subscribe up to and including the
\* exists() query
begin_add(s, op, u, target) ==
    /\ inflight[s].pc = "idle"
    /\ LET reply(status, body) ==
               Response(op, u, target, FALSE, NoData, status, {}, body)
           found == IF op = "favorite"
                    THEN exists(filter_user_recipe(Favorite, u, target))
                    ELSE IF op = "shopping_cart"
                    THEN exists(filter_user_recipe(ShoppingCart, u, target))
                    ELSE exists(filter_user_author(u, target))
       IN
       IF ~IsAuthenticated(u)
       THEN /\ last' = reply("NotAuthenticated", NoBody)
            /\ UNCHANGED <<tables, db_range_check, inflight>>
       ELSE IF ~(IF op = "subscribe" THEN target \in User
                 ELSE RecipeExists(target))
       THEN /\ last' = reply("NotFound", NoBody)
            /\ UNCHANGED <<tables, db_range_check, inflight>>
       ELSE IF op = "subscribe" /\ is_self(u, target)
       THEN /\ last' = reply("BadRequest", ErrorBody("self Subscription"))
            /\ UNCHANGED <<tables, db_range_check, inflight>>
       ELSE IF found
       THEN /\ last' = reply("BadRequest", ErrorBody("already added"))
            /\ UNCHANGED <<tables, db_range_check, inflight>>
       ELSE /\ inflight' = [inflight EXCEPT ![s] =
                   Running("insert", op, u, target, FALSE, NoData, NoData)]
            /\ UNCHANGED <<tables, db_range_check, last>>

\* Favorite / ShoppingCart / Subscription .objects.create(...), then the
\* response; an exception of the INSERT is not caught by the view
insert_row(s) ==
    /\ inflight[s].pc = "insert"
    /\ LET h == inflight[s]
           reply(status, body) ==
               Response(h.op, h.user, h.pk, FALSE, NoData, status, {}, body)
           raised ==
               IF h.op = "favorite"
               THEN unique_error(filter_user_recipe(Favorite, h.user, h.pk))
               ELSE IF h.op = "shopping_cart"
               THEN unique_error(filter_user_recipe(ShoppingCart, h.user, h.pk))
               ELSE subscription_insert_error(h.user, h.pk)
       IN
       IF raised /= "ok"
       THEN /\ last' = reply(raised, NoBody)
            /\ UNCHANGED tables
       ELSE /\ h.op = "subscribe" => now <= MaxCreated
            /\ Favorite' = IF h.op = "favorite"
                           THEN Favorite \cup {[user |-> h.user, recipe |-> h.pk]}
                           ELSE Favorite
            /\ ShoppingCart' =
                   IF h.op = "shopping_cart"
                   THEN ShoppingCart \cup {[user |-> h.user, recipe |-> h.pk]}
                   ELSE ShoppingCart
            /\ Subscription' =
                   IF h.op = "subscribe"
                   THEN Subscription \cup {[user |-> h.user, author |-> h.pk,
                                            created |-> now]}
                   ELSE Subscription
            /\ last' = reply("Created",
                             IF h.op = "subscribe" THEN [id |-> h.pk]
                             ELSE minified(RecipeOf(h.pk)))
            /\ UNCHANGED <<User, Ingredient, Recipe, RecipeIngredient,
                           next_recipe_id, next_ingredient_id>>
    /\ inflight' = [inflight EXCEPT ![s] = Idle]
    /\ UNCHANGED db_range_check

NextAddRace ==
    \/ \E u \in RecipeAuthors : create(u, PayloadA)
    \/ \E s \in Slots, u \in MemberUsers, pk \in RecipePks :
          begin_add(s, "favorite", u, pk)
    \/ \E s \in Slots, u \in MemberUsers, pk \in RecipePks :
          begin_add(s, "shopping_cart", u, pk)
    \/ \E s \in Slots, u \in MemberUsers, id \in UserIds :
          begin_add(s, "subscribe", u, id)
    \/ \E s \in Slots : insert_row(s)

SpecAddRace == InitRangeChecked /\ [][NextAddRace]_vars

(***************************************************************************)
(* SpecCart: the shopping list.  It starts from a state two Creates of     *)
(* user 1 lead to (recipe 1: egg 1, sugar 2 g; recipe 2: sugar 3 g); the   *)
(* recipes' line items are then replaced, recipes enter and leave the      *)
(* carts of two users, and ingredients are deleted.                        *)
(***************************************************************************)
CartRecipePks == {1, 2}

InitCart ==
    /\ User = UserIds
    /\ Ingredient = Catalog
    /\ Recipe = { [id |-> pk, author |-> 1, name |-> "a", cooking_time |-> 1] :
                    pk \in CartRecipePks }
    /\ RecipeIngredient =
           { [recipe |-> 1, ingredient |-> 1, amount |-> 1],
             [recipe |-> 1, ingredient |-> 2, amount |-> 2],
             [recipe |-> 2, ingredient |-> 2, amount |-> 3] }
    /\ Favorite = {}
    /\ ShoppingCart = {}
    /\ Subscription = {}
    /\ next_recipe_id = 3
    /\ next_ingredient_id = 1 + Cardinality(Catalog)
    /\ db_range_check \in BOOLEAN
    /\ inflight = [s \in Slots |-> Idle]
    /\ last = Response("none", Anonymous, 0, FALSE, NoData, "none", {}, NoBody)

\* PATCH bodies that replace the line items
CartPayloads ==
    { [ingredients |-> <<[id |-> 2, amount |-> 9]>>],
      [ingredients |-> <<[id |-> 2, amount |-> 2], [id |-> 3, amount |-> 1]>>] }

CartUsers == {1, 2}

NextCart ==
    \/ \E u \in RecipeAuthors, pk \in CartRecipePks, d \in CartPayloads :
          update(u, pk, TRUE, d)
    \/ \E u \in CartUsers, pk \in CartRecipePks, m \in Methods :
          shopping_cart(u, pk, m)
    \/ \E u \in Staff, pk \in IngredientPks : delete_ingredient(u, pk)
    \/ \E u \in {Anonymous} \cup CartUsers : download_shopping_cart(u)

SpecCart == InitCart /\ [][NextCart]_vars

(***************************************************************************)
(* Properties of the recipe aggregate                                      *)
(***************************************************************************)
\* what the specification calls the line items of a recipe and of a body
LineItems(pk) ==
    { <<row.ingredient, row.amount>> :
        row \in { x \in RecipeIngredient : x.recipe = pk } }

Submitted(items) == { <<items[k].id, items[k].amount>> : k \in 1..Len(items) }

Repeats(items) ==
    \E j, k \in 1..Len(items) : j /= k /\ items[j].id = items[k].id

\* the request of last' is one the permission layer lets through to the
\* serializer (evaluated in the state the request was made in)
Admitted ==
    /\ last'.user /= Anonymous
    /\ last'.op = "update" =>
          /\ RecipeExists(last'.pk)
          /\ (RecipeOf(last'.pk).author = last'.user \/ is_staff(last'.user))

\* C3: a Replace (PUT or PATCH) whose body has no ingredients changes
\* nothing, whatever else the body holds, and is answered with
\* ValidationError once the requester may update the recipe.
C3_ReplaceWithoutLineItemsFails ==
    [][ (last'.op = "update" /\ ~Has(last'.data, "ingredients"))
          => /\ UNCHANGED tables
             /\ last'.status \notin {"OK", "Created"}
             /\ Admitted => last'.status = "ValidationError" ]_vars

C3_Witness ==
    /\ last.op = "update" /\ last.partial
    /\ DOMAIN last.data = {"name", "cooking_time"}
    /\ last.data.cooking_time = 1
    /\ last.status = "ValidationError"
    /\ last.errors = {"ingredients"}
    /\ \E r \in Recipe : r.id = last.pk /\ r.name /= last.data.name
    /\ LineItems(last.pk) /= {}

\* C4: after a successful Replace with list L the recipe's line items are
\* exactly the items of L.
C4_ReplaceStoresExactlyL ==
    (last.op = "update" /\ last.status = "OK")
        => LineItems(last.pk) = Submitted(last.data.ingredients)

C4_Witness ==
    /\ last.op = "update" /\ last.status = "OK"
    /\ last.data.ingredients = <<[id |-> 2, amount |-> 1]>>
    /\ LineItems(last.pk) = {<<2, 1>>}

\* C5: a Create or Replace whose ingredients list is empty or repeats an
\* ingredient changes nothing and, for a requester let through to the
\* serializer, is answered with ValidationError naming the field.
C5_EmptyOrRepeatedRejected ==
    [][ ( /\ last'.op \in {"create", "update"}
          /\ Has(last'.data, "ingredients")
          /\ (last'.data.ingredients = <<>> \/ Repeats(last'.data.ingredients)) )
          => /\ UNCHANGED tables
             /\ Admitted => /\ last'.status = "ValidationError"
                             /\ "ingredients" \in last'.errors ]_vars

C5_Witness ==
    /\ last.op = "create"
    /\ DOMAIN last.data = RecipeFields
    /\ Len(last.data.ingredients) = 2
    /\ last.data.ingredients[1].id = last.data.ingredients[2].id
    /\ last.data.ingredients[1].amount /= last.data.ingredients[2].amount
    /\ last.data.cooking_time = 1
    /\ last.status = "ValidationError"
    /\ last.errors = {"ingredients"}
    /\ Recipe = {}

\* a body that meets every constraint the specification puts on Create
ValidForCreate(data) ==
    /\ DOMAIN data = RecipeFields
    /\ data.cooking_time \in MIN_COOKING_TIME..MAX_COOKING_TIME
    /\ data.ingredients /= <<>>
    /\ ~Repeats(data.ingredients)
    /\ \A k \in 1..Len(data.ingredients) :
          /\ data.ingredients[k].id \in IngredientPks
          /\ data.ingredients[k].amount
                \in MIN_INGREDIENT_AMOUNT..MAX_INGREDIENT_AMOUNT

ReadItems(body) == { <<i.id, i.amount>> : i \in body.ingredients }

\* C7: a Create with a valid body succeeds, its response shows exactly the
\* submitted ingredients with their amounts, and so does a read of the
\* recipe that follows it.
C7_CreateThenRead ==
    /\ [](last.op = "create" /\ last.user /= Anonymous
             /\ ValidForCreate(last.data)
           => /\ last.status = "Created"
              /\ ReadItems(last.body) = Submitted(last.data.ingredients))
    /\ [][ ( /\ last.op = "create" /\ last.status = "Created"
              /\ last'.op = "retrieve" /\ last'.pk = last.body.id )
            => /\ last'.status = "OK"
               /\ ReadItems(last'.body) = Submitted(last.data.ingredients)
          ]_vars

C7_Witness ==
    /\ last.op = "create" /\ last.status = "Created"
    /\ Len(last.data.ingredients) = 2
    /\ ReadItems(last.body) = {<<1, 32000>>, <<2, 1>>}
    /\ \A i \in last.body.ingredients : i.id = 1 => i.name = "egg"

C2_FailureLeavesNoPartialWrite ==
    [][ (last'.op \in {"create", "update"}
         /\ last'.status \notin {"Created", "OK"})
          => UNCHANGED <<Recipe, RecipeIngredient>> ]_vars

OutOfRange(data) ==
    \/ /\ Has(data, "cooking_time")
       /\ data.cooking_time \notin MIN_COOKING_TIME..MAX_COOKING_TIME
    \/ /\ Has(data, "ingredients")
       /\ \E k \in 1..Len(data.ingredients) :
             data.ingredients[k].amount
                \notin MIN_INGREDIENT_AMOUNT..MAX_INGREDIENT_AMOUNT

\* C6: a Create or Replace with a cooking_time or an amount outside
\* 1..32000 is answered with ValidationError, and every stored
\* cooking_time and amount lies in 1..32000.
C6_RangesEnforced ==
    /\ (last.op \in {"create", "update"} /\ OutOfRange(last.data))
          => last.status \in {"ValidationError", "NotFound"}
    /\ \A r \in Recipe :
          r.cooking_time \in MIN_COOKING_TIME..MAX_COOKING_TIME
    /\ \A row \in RecipeIngredient :
          row.amount \in MIN_INGREDIENT_AMOUNT..MAX_INGREDIENT_AMOUNT

(***************************************************************************)
(* Properties of the permission layer, checked over Spec                   *)
(***************************************************************************)
Reads == {"retrieve", "list", "get_link"}
Writes == {"create", "update", "destroy", "favorite", "shopping_cart",
           "subscribe"}

\* C9: an update or a delete of a recipe by an authenticated user who is
\* neither its author nor an administrator is answered with
\* PermissionDenied and changes no table, whatever the body; and an update
\* or delete that changes a table comes from the author or an
\* administrator.
C9_OnlyAuthorOrStaffMutates ==
    [][ /\ ( /\ last'.op \in {"update", "destroy"}
             /\ last'.user \in UserIds
             /\ RecipeExists(last'.pk)
             /\ RecipeOf(last'.pk).author /= last'.user
             /\ ~is_staff(last'.user) )
            => /\ last'.status = "PermissionDenied"
               /\ UNCHANGED tables
        /\ (last'.op \in {"update", "destroy"} /\ tables' /= tables)
            => /\ RecipeExists(last'.pk)
               /\ \/ RecipeOf(last'.pk).author = last'.user
                  \/ is_staff(last'.user) ]_vars

C9_Witness ==
    /\ last.op = "update" /\ last.user = 2
    /\ last.data = PayloadB
    /\ last.status = "PermissionDenied"
    /\ \E r \in Recipe : r.id = last.pk /\ r.author = 1 /\ r.name = "a"
    /\ LineItems(last.pk) = {<<1, 1>>}
    /\ [user |-> 2, recipe |-> last.pk] \in Favorite

\* C10: an anonymous request reads recipes (detail, list, short link) and
\* is refused every write (create, update, delete, membership add and
\* remove); it changes no table.
C10_AnonymousReadsOnly ==
    [][ last'.user = Anonymous
          => /\ UNCHANGED tables
             /\ last'.op \in Writes => last'.status = "NotAuthenticated"
             /\ last'.op \in Reads => last'.status \in {"OK", "NotFound"}
             /\ last'.op = "list" => last'.status = "OK"
             /\ (last'.op \in Reads /\ last'.pk \in {r.id : r \in Recipe}
                   => last'.status = "OK") ]_vars

C10_Witness ==
    /\ last.user = Anonymous
    /\ last.op = "destroy"
    /\ last.status = "NotAuthenticated"
    /\ \E r \in Recipe : r.id = last.pk
    /\ LineItems(last.pk) /= {}
    /\ Favorite /= {}

(***************************************************************************)
(* Property of concurrent requests, checked over SpecStmt                  *)
(***************************************************************************)
\* C1: a read of a recipe, at any point between the statements of the
\* Creates and Replaces in flight, shows a complete submitted line-item
\* set: never no line item, never a set no request submitted.
C1_ReaderSeesCompleteSets ==
    (last.op = "retrieve" /\ last.status = "OK")
        => \E d \in StmtPayloads :
              ReadItems(last.body) = Submitted(d.ingredients)

(***************************************************************************)
(* Properties of the membership sets and of deletion, checked over         *)
(* SpecMember                                                              *)
(***************************************************************************)
\* C11: no orphan row.  Every line item references an existing recipe and
\* an existing ingredient, every favorite and shopping-cart row an existing
\* user and an existing recipe, every recipe an existing author, and every
\* subscription two existing users.
C11_NoOrphanRow ==
    LET RecipeIds == { r.id : r \in Recipe }
        IngredientIds == { i.id : i \in Ingredient }
    IN
    /\ \A row \in RecipeIngredient :
          row.recipe \in RecipeIds /\ row.ingredient \in IngredientIds
    /\ \A row \in Favorite \cup ShoppingCart :
          row.user \in User /\ row.recipe \in RecipeIds
    /\ \A r \in Recipe : r.author \in User
    /\ \A row \in Subscription : row.user \in User /\ row.author \in User

\* the author was deleted with the recipe, its line item, a favorite row
\* and a subscription to the author
C11_Witness ==
    /\ last.op = "delete_user" /\ last.status = "NoContent"
    /\ last.pk = 1
    /\ last.body.deleted >= 5
    /\ Recipe = {}

MembershipOps == {"favorite", "shopping_cart", "subscribe"}

\* the rows of the membership set of `op` for the pair (owner, target), in
\* the tables given
PairRows(favorites, carts, subs, op, owner, target) ==
    IF op = "favorite"
    THEN { row \in favorites : row.user = owner /\ row.recipe = target }
    ELSE IF op = "shopping_cart"
    THEN { row \in carts : row.user = owner /\ row.recipe = target }
    ELSE { row \in subs : row.user = owner /\ row.author = target }

\* the pair of the request of last', before and after it is handled
PairBefore ==
    PairRows(Favorite, ShoppingCart, Subscription,
             last'.op, last'.user, last'.pk)
PairAfter ==
    PairRows(Favorite', ShoppingCart', Subscription',
             last'.op, last'.user, last'.pk)

\* the request of last' is a membership request of an authenticated user
\* for an existing target (for subscribe: another user)
MemberAdmitted ==
    /\ last'.op \in MembershipOps
    /\ last'.user \in User
    /\ IF last'.op = "subscribe"
       THEN last'.pk \in User /\ last'.pk /= last'.user
       ELSE RecipeExists(last'.pk)

\* the 400 response with the {"errors": ...} body
IsDomainError(response) ==
    response.status = "BadRequest" /\ DOMAIN response.body = {"errors"}

\* C12: for each membership set and pair, an Add of an absent pair succeeds
\* and stores it; an Add of a stored pair is answered with the Conflict
\* error and leaves exactly one row; a Remove of a stored pair succeeds and
\* leaves the pair absent, so that an Add succeeds again.
C12_AddTwiceRemoveAdd ==
    [][ MemberAdmitted =>
          /\ (~last'.partial /\ PairBefore = {})
                => /\ last'.status = "Created"
                   /\ Cardinality(PairAfter) = 1
          /\ (~last'.partial /\ PairBefore /= {})
                => /\ IsDomainError(last')
                   /\ UNCHANGED tables
                   /\ Cardinality(PairAfter) = 1
          /\ (last'.partial /\ PairBefore /= {})
                => /\ last'.status = "NoContent"
                   /\ PairAfter = {} ]_vars

\* the second Add of a pair
C12_Witness ==
    /\ last.op = "subscribe" /\ ~last.partial
    /\ last.user = 2 /\ last.pk = 1
    /\ IsDomainError(last)
    /\ \E row \in Subscription :
          row.user = 2 /\ row.author = 1 /\ row.created = MaxCreated

\* C14: a Remove of a pair that is not stored is answered with an error
\* and changes no table.
C14_RemoveAbsentFails ==
    [][ ( /\ last'.op \in MembershipOps
          /\ last'.partial
          /\ last'.user \in User
          /\ (IF last'.op = "subscribe" THEN last'.pk \in User
              ELSE RecipeExists(last'.pk))
          /\ PairBefore = {} )
          => /\ IsDomainError(last')
             /\ UNCHANGED tables ]_vars

C14_Witness ==
    /\ last.op = "shopping_cart" /\ last.partial
    /\ IsDomainError(last)
    /\ [user |-> last.user, recipe |-> last.pk] \in Favorite
    /\ ShoppingCart /= {}

\* C15: a subscribe request whose requester is the target fails and stores
\* nothing; no Subscription row has user = author.
C15_NoSelfSubscription ==
    /\ [](\A row \in Subscription : row.user /= row.author)
    /\ [][ (last'.op = "subscribe" /\ last'.user \in User
            /\ last'.user = last'.pk)
            => /\ IsDomainError(last')
               /\ UNCHANGED tables ]_vars

C15_Witness ==
    /\ last.op = "subscribe" /\ ~last.partial
    /\ last.user = 2 /\ last.pk = 2
    /\ IsDomainError(last)
    /\ Subscription /= {}

RECURSIVE NewestFirst(_)
\* the authors of the subscription rows, latest created first
NewestFirst(rows) ==
    IF rows = {} THEN <<>>
    ELSE LET newest == CHOOSE x \in rows :
                           \A y \in rows : y.created <= x.created
         IN  <<newest.author>> \o NewestFirst(rows \ {newest})

\* C16: the subscriptions listing holds exactly the authors the requester
\* is subscribed to, the latest subscription first.
C16_SubscriptionsNewestFirst ==
    (last.op = "subscriptions" /\ last.status = "OK")
        => last.body.results =
              NewestFirst({ row \in Subscription : row.user = last.user })

\* the part of C16 that holds: the listing holds exactly the subscribed
\* authors, each once
SubscriptionsListsTheAuthors ==
    (last.op = "subscriptions" /\ last.status = "OK")
        => /\ Range(last.body.results) =
                 { row.author : row \in { x \in Subscription :
                                            x.user = last.user } }
           /\ Len(last.body.results) = Cardinality(Range(last.body.results))

(***************************************************************************)
(* Property of concurrent membership Adds, checked over SpecAddRace        *)
(***************************************************************************)
\* C13: when Adds of one pair race, one row is stored and the Add that
\* loses is answered with the Conflict error of a sequential second Add,
\* never with an error of the database.
C13_RacingAddIsConflict ==
    /\ \A x, y \in Subscription :
          (x.user = y.user /\ x.author = y.author) => x = y
    /\ (last.op \in MembershipOps /\ ~last.partial
        /\ last.status \notin {"Created", "NotAuthenticated", "NotFound"})
          => IsDomainError(last)

(***************************************************************************)
(* Properties of the shopping list, checked over SpecCart                  *)
(***************************************************************************)
\* the line items of the recipes in the cart of user u, with the name and
\* unit of their ingredient
CartLineItems(u) ==
    { [recipe |-> row.recipe, name |-> i.name, unit |-> i.measurement_unit,
       amount |-> row.amount] :
        <<row, i>> \in { p \in RecipeIngredient \X Ingredient :
            /\ p[1].ingredient = p[2].id
            /\ [user |-> u, recipe |-> p[1].recipe] \in ShoppingCart } }

CartPairs(u) == { <<x.name, x.unit>> : x \in CartLineItems(u) }

RECURSIVE Total(_)
Total(items) ==
    IF items = {} THEN 0
    ELSE LET x == CHOOSE y \in items : TRUE IN x.amount + Total(items \ {x})

\* one line per (name, unit) pair of the cart, with the sum of the amounts
ExpectedLines(u) ==
    { [name |-> pair[1], unit |-> pair[2],
       amount |-> str(Total({ x \in CartLineItems(u) :
                                x.name = pair[1] /\ x.unit = pair[2] }))] :
        pair \in CartPairs(u) }

IsReport(response) ==
    response.op = "download_shopping_cart" /\ response.status = "OK"

\* C17: the report has exactly one line for each (name, unit) pair among
\* the line items of the recipes in the requester's cart, with the sum of
\* their amounts, and no other line.
C17_OneLinePerPairWithTotal ==
    IsReport(last)
        => /\ Range(last.body.lines) = ExpectedLines(last.user)
           /\ Len(last.body.lines) = Cardinality(ExpectedLines(last.user))

\* C18: the count of the footer is the number of lines rendered and the
\* number of distinct (name, unit) pairs of the cart; an empty cart gives
\* a successful report with no line and a count of 0.
C18_FooterCountsPairs ==
    /\ IsReport(last)
          => /\ last.body.count = Len(last.body.lines)
             /\ last.body.count = Cardinality(CartPairs(last.user))
    /\ (last.op = "download_shopping_cart" /\ last.user \in User
        /\ ~\E c \in ShoppingCart : c.user = last.user)
          => /\ last.status = "OK"
             /\ last.body.lines = <<>>
             /\ last.body.count = 0

\* alphabetical order of the names the report renders
Alphabetical == <<"egg", "None", "sugar">>
AlphabeticalRank(name) ==
    CHOOSE k \in 1..Len(Alphabetical) : Alphabetical[k] = name

\* C19: the lines of the report are in ascending alphabetical order of the
\* name they show.
C19_LinesAscendByName ==
    IsReport(last)
        => \A k \in 1..(Len(last.body.lines) - 1) :
              AlphabeticalRank(last.body.lines[k].name)
                 <= AlphabeticalRank(last.body.lines[k + 1].name)

\* C20: two renderings of the report for one user over the same stored
\* state are identical.
C20_ReportIsDeterministic ==
    [][ ( /\ IsReport(last) /\ IsReport(last')
          /\ last'.user = last.user
          /\ UNCHANGED tables )
          => last'.body = last.body ]_vars

\* no recipe in the cart of the requester is without line items
NoEmptyRecipeInCart ==
    \A c \in ShoppingCart :
        c.user = last.user => \E row \in RecipeIngredient : row.recipe = c.recipe

\* what holds of C17, C18 and C19: the claims restricted to carts whose
\* recipes all have line items
ReportOfCartWithoutEmptyRecipe ==
    (IsReport(last) /\ NoEmptyRecipeInCart)
        => /\ C17_OneLinePerPairWithTotal
           /\ C18_FooterCountsPairs
           /\ C19_LinesAscendByName

(***************************************************************************)
(* The short-link encoder on its own: every step encodes one number. The   *)
(* numbers are those up to MaxTwoDigits and those from 62 * 62 - 62 up to  *)
(* MaxEncoded, which spans one-, two- and three-digit codes.               *)
(***************************************************************************)
MaxTwoDigits == 200
MaxEncoded == 3906

EncodedNumbers ==
    (0..MaxTwoDigits) \cup ((62 * 62 - 62)..MaxEncoded)

NextEncode == \E num \in EncodedNumbers : short_code(num)

SpecEncode == InitRangeChecked /\ [][NextEncode]_vars

ascii_lowercase ==
    << "a", "b", "c", "d", "e", "f", "g", "h", "i", "j", "k", "l", "m",
       "n", "o", "p", "q", "r", "s", "t", "u", "v", "w", "x", "y", "z" >>

ascii_uppercase ==
    << "A", "B", "C", "D", "E", "F", "G", "H", "I", "J", "K", "L", "M",
       "N", "O", "P", "Q", "R", "S", "T", "U", "V", "W", "X", "Y", "Z" >>

\* the digits of base 62 in ascending value: decimal digits, lowercase
\* letters, uppercase letters
Base62Symbols == digits \o ascii_lowercase \o ascii_uppercase

DigitValue(symbol) ==
    CHOOSE v \in 0..(Len(Base62Symbols) - 1) : Base62Symbols[v + 1] = symbol

RECURSIVE Base62Value(_)
\* the number a sequence of base-62 digits denotes, most significant first
Base62Value(code) ==
    IF code = <<>> THEN 0
    ELSE 62 * Base62Value(SubSeq(code, 1, Len(code) - 1))
         + DigitValue(code[Len(code)])

IsShortCode(response) == response.op = "short_code"

\* C21: the encoder returns the base-62 representation of n over decimal
\* digits, lowercase letters, uppercase letters, most significant digit
\* first and without a leading zero; 0 gives "0", 61 gives "Z", 62 gives
\* "10".
C21_EncodesBase62 ==
    IsShortCode(last)
        => LET code == last.body.short_code
               n == last.pk
           IN
           /\ Len(code) >= 1
           /\ \A k \in 1..Len(code) : code[k] \in Range(Base62Symbols)
           /\ Base62Value(code) = n
           /\ Len(code) > 1 => code[1] /= "0"
           /\ n = 0 => code = <<"0">>
           /\ n = 61 => code = <<"Z">>
           /\ n = 62 => code = <<"1", "0">>

\* the encoder has produced a three-digit code
C21_Witness ==
    /\ IsShortCode(last)
    /\ last.pk = 62 * 62 + 62
    /\ last.body.short_code = <<"1", "1", "0">>

\* C22: distinct numbers are encoded as distinct codes, so two recipes
\* never get the same short link.
C22_EncoderInjective ==
    [][ ( /\ IsShortCode(last) /\ IsShortCode(last')
          /\ last'.pk /= last.pk )
          => last'.body.short_code /= last.body.short_code ]_vars

\* two numbers that agree in their last digit have been encoded in turn
C22_Witness ==
    /\ IsShortCode(last)
    /\ last.pk = 62 + 7
    /\ last.body.short_code = <<"1", "7">>

(***************************************************************************)
(* api/views.py : IngredientViewSet (permission_classes = [AllowAny]).     *)
(* Names are strings; name_chars gives the characters of those the model   *)
(* stores, for the prefix test of the search.                              *)
(***************************************************************************)
name_chars ==
    [ egg |-> <<"e", "g", "g">>,
      sugar |-> <<"s", "u", "g", "a", "r">>,
      Salt |-> <<"S", "a", "l", "t">> ]

\* the case folding of a case-insensitive lookup, on ASCII letters
lower(c) ==
    IF \E k \in 1..Len(ascii_uppercase) : ascii_uppercase[k] = c
    THEN ascii_lowercase[CHOOSE k \in 1..Len(ascii_uppercase) :
                            ascii_uppercase[k] = c]
    ELSE c

\* mutant of istartswith: name__icontains
icontains(value, prefix) ==
    \E offset \in 0..(Len(value) - Len(prefix)) :
        \A k \in 1..Len(prefix) : lower(value[offset + k]) = lower(prefix[k])

\* the lookup name__istartswith
istartswith(value, prefix) ==
    /\ Len(prefix) <= Len(value)
    /\ \A k \in 1..Len(prefix) : lower(value[k]) = lower(prefix[k])

\* IngredientViewSet.get_queryset; query_params may hold "name"
get_queryset(query_params) ==
    IF Has(query_params, "name") /\ query_params.name /= <<>>
    THEN { i \in Ingredient :
             istartswith(name_chars[i.name], query_params.name) }
    ELSE Ingredient

\* mutant of ReadOnlyModelViewSet: the actions of a ModelViewSet
ModelViewSet ==
    {"list", "retrieve", "create", "partial_update", "destroy"}

\* the actions of the base class of IngredientViewSet
ReadOnlyModelViewSet == {"list", "retrieve"}

\* the action the router maps a method to; pk = 0 is the collection URL
action_of(method, pk) ==
    IF method = "GET" THEN (IF pk = 0 THEN "list" ELSE "retrieve")
    ELSE IF method = "POST" THEN "create"
    ELSE IF method = "PATCH" THEN "partial_update"
    ELSE "destroy"

\* a request to /ingredients/ or /ingredients/{pk}/; a method whose action
\* the view set does not have is answered 405
ingredients(u, method, pk, query_params) ==
    LET reply(status, body) ==
            Response("ingredients", u, pk, FALSE,
                     [method |-> method] @@ query_params, status, {}, body)
        queryset == get_queryset(query_params)
        found == { i \in queryset : i.id = pk }
        view == action_of(method, pk)
    IN
    IF view \notin ReadOnlyModelViewSet
    THEN /\ last' = reply("MethodNotAllowed", NoBody)
         /\ UNCHANGED <<tables, db_range_check, inflight>>
    ELSE IF view = "list"
    THEN /\ last' = reply("OK", [results |-> queryset])
         /\ UNCHANGED <<tables, db_range_check, inflight>>
    ELSE IF found = {}
    THEN /\ last' = reply("NotFound", NoBody)
         /\ UNCHANGED <<tables, db_range_check, inflight>>
    ELSE IF view = "retrieve"
    THEN /\ last' = reply("OK", CHOOSE i \in found : TRUE)
         /\ UNCHANGED <<tables, db_range_check, inflight>>
    ELSE IF view = "destroy"
    THEN \* not an action of a ReadOnlyModelViewSet
         /\ Ingredient' = Ingredient \ found
         /\ RecipeIngredient' =
                on_delete_CASCADE(RecipeIngredient, "ingredient", {pk})
         /\ last' = reply("NoContent", NoBody)
         /\ UNCHANGED <<User, Recipe, Favorite, ShoppingCart, Subscription,
                        next_recipe_id, next_ingredient_id, db_range_check,
                        inflight>>
    ELSE \* create and partial_update, without a request body
         /\ last' = reply("ValidationError", NoBody)
         /\ UNCHANGED <<tables, db_range_check, inflight>>

(***************************************************************************)
(* recipes/management/commands/load_ingredients.py.  A JSON file is a list *)
(* of objects, a CSV file a list of rows; both loaders read a (name, unit) *)
(* pair from each entry and run the same loop.                             *)
(***************************************************************************)
MaxIngredientId == 6    \* Ingredient rows inserted in one behaviour

BATCH_SIZE == 500

\* what the command did: the exception it ended with ("ok" for none), the
\* table and the primary key sequence as its statements left them
Loaded(raised, db, next_id) ==
    [ raised |-> raised, Ingredient |-> db, next_id |-> next_id ]

\* row[0].strip(), row[1].strip() on the strings of the model
strip(string) == IF string = "Salt " THEN "Salt" ELSE string

\* name and measurement_unit as _load_from_json reads them with item.get;
\* "" stands for the None of a missing key, which is as falsy
json_pair(item) ==
    [ name |-> IF Has(item, "name") THEN item.name ELSE "",
      measurement_unit |->
          IF Has(item, "measurement_unit") THEN item.measurement_unit
          ELSE "" ]

\* ... and as _load_from_csv reads them; a row of fewer than two columns
\* is skipped like an empty name
csv_pair(row) ==
    IF Len(row) < 2 THEN [name |-> "", measurement_unit |-> ""]
    ELSE [name |-> strip(row[1]), measurement_unit |-> strip(row[2])]

\* Ingredient.objects.filter(name=name, measurement_unit=measurement_unit)
filter_name_unit(db, pair) ==
    { i \in db : /\ i.name = pair.name
                 /\ i.measurement_unit = pair.measurement_unit }

\* mutant of unique_ingredient_error: the table has no unique constraint
unique_ingredient_not_enforced(db, objs) == "ok"

\* UniqueConstraint unique_ingredient on the rows an INSERT adds
unique_ingredient_error(db, objs) ==
    IF \/ \E k \in 1..Len(objs) : filter_name_unit(db, objs[k]) /= {}
       \/ \E j, k \in 1..Len(objs) : j < k /\ objs[j] = objs[k]
    THEN "IntegrityError"
    ELSE "ok"

\* Ingredient.objects.bulk_create(ingredients_to_create): one INSERT
bulk_create_ingredients(db, next_id, objs) ==
    IF unique_ingredient_error(db, objs) /= "ok"
    THEN Loaded(unique_ingredient_error(db, objs), db, next_id)
    ELSE Loaded("ok",
                db \cup { [id |-> next_id + k - 1, name |-> objs[k].name,
                           measurement_unit |-> objs[k].measurement_unit] :
                            k \in 1..Len(objs) },
                next_id + Len(objs))

RECURSIVE load_loop(_, _, _, _)
\* the loop of _load_from_json and _load_from_csv over the pairs read, and
\* the bulk_create that follows it; ingredients_to_create is the list of
\* the pairs not yet inserted
load_loop(pairs, db, next_id, ingredients_to_create) ==
    IF pairs = <<>>
    THEN IF ingredients_to_create = <<>> THEN Loaded("ok", db, next_id)
         ELSE bulk_create_ingredients(db, next_id, ingredients_to_create)
    ELSE LET pair == Head(pairs) IN
         IF pair.name = "" \/ pair.measurement_unit = ""
         THEN load_loop(Tail(pairs), db, next_id, ingredients_to_create)
         ELSE IF exists(filter_name_unit(db, pair))
         THEN load_loop(Tail(pairs), db, next_id, ingredients_to_create)
         ELSE LET grown == Append(ingredients_to_create, pair) IN
              IF Len(grown) >= BATCH_SIZE
              THEN LET batch == bulk_create_ingredients(db, next_id, grown)
                   IN  IF batch.raised /= "ok" THEN batch
                       ELSE load_loop(Tail(pairs), batch.Ingredient,
                                      batch.next_id, <<>>)
              ELSE load_loop(Tail(pairs), db, next_id, grown)

\* the pairs a file holds, in its order
pairs_of(suffix, file) ==
    [ k \in 1..Len(file) |->
        IF suffix = "json" THEN json_pair(file[k]) ELSE csv_pair(file[k]) ]

\* Command.handle: manage.py load_ingredients [--clear] --file <file>.
\* An exception of the JSON loader's bulk_create leaves the command as it
\* is; the CSV loader re-raises every exception as a CommandError.
load_ingredients(suffix, clear, file) ==
    LET cleared == IF clear THEN {} ELSE Ingredient
        done == load_loop(pairs_of(suffix, file), cleared,
                          next_ingredient_id, <<>>)
        status == IF done.raised = "ok" THEN "OK"
                  ELSE IF suffix = "csv" THEN "CommandError"
                  ELSE done.raised
    IN
    /\ done.next_id - 1 <= MaxIngredientId
    /\ Ingredient' = done.Ingredient
    /\ next_ingredient_id' = done.next_id
    /\ RecipeIngredient' =
           IF clear
           THEN on_delete_CASCADE(RecipeIngredient, "ingredient",
                                  { i.id : i \in Ingredient })
           ELSE RecipeIngredient
    /\ last' = Response("load_ingredients", Anonymous, 0, clear,
                        [suffix |-> suffix, file |-> file], status, {},
                        NoBody)
    /\ UNCHANGED <<User, Recipe, Favorite, ShoppingCart, Subscription,
                   next_recipe_id, db_range_check, inflight>>

(***************************************************************************)
(* SpecCatalog: the public API, every endpoint of it, next to the two ways *)
(* the catalogue changes (the import command and the admin site).          *)
(***************************************************************************)
Salt == [name |-> "Salt", measurement_unit |-> "g"]

IngredientMethods == {"GET", "POST", "PATCH", "DELETE"}

\* ?name=... of the ingredient search; NoData is a request without it
NameQueries ==
    { NoData } \cup
    { [name |-> p] :
        p \in { <<>>, <<"s">>, <<"S", "A">>, <<"u", "g">>,
                <<"e", "g", "g", "s">>, <<"E", "G", "G">> } }

\* pk = 0 is the collection URL, 1 an ingredient of the catalogue and the
\* last one the first the import command adds
CatalogPks == {0, 1, 1 + Cardinality(Catalog)}

ApiUsers == {Anonymous, 1}

NextCatalog ==
    \/ \E u \in ApiUsers, pk \in CatalogPks, q \in NameQueries :
          ingredients(u, "GET", pk, q)
    \/ \E u \in ApiUsers, m \in IngredientMethods, pk \in CatalogPks :
          ingredients(u, m, pk, NoData)
    \/ RecipeApi({1}, {PayloadA})
    \/ \E u \in ApiUsers, pk \in RecipePks, m \in Methods : favorite(u, pk, m)
    \/ \E u \in ApiUsers, pk \in RecipePks, m \in Methods :
          shopping_cart(u, pk, m)
    \/ \E u \in ApiUsers, m \in Methods : subscribe(u, 2, m)
    \/ \E u \in ApiUsers : subscriptions(u)
    \/ \E u \in ApiUsers : download_shopping_cart(u)
    \/ load_ingredients("json", FALSE, <<Salt>>)
    \/ \E u \in Staff, pk \in IngredientPks : delete_ingredient(u, pk)

SpecCatalog == InitRangeChecked /\ [][NextCatalog]_vars

(***************************************************************************)
(* SpecImport: the import command over JSON and CSV files, with and        *)
(* without --clear, next to recipes that use the catalogue and carts that  *)
(* hold them.                                                              *)
(***************************************************************************)
MaxFileLen == 2

JsonItems ==
    { Salt, [name |-> "sugar", measurement_unit |-> "g"],
      [measurement_unit |-> "g"] }

CsvRows == { <<"Salt ", "g">>, <<"Salt", "g">>, <<"egg", "pc">>, <<"Salt">> }

JsonFiles == SeqsUpTo(JsonItems, MaxFileLen)
CsvFiles == SeqsUpTo(CsvRows, MaxFileLen)

\* PATCH bodies that replace the line items
ImportPayloads ==
    { [ingredients |-> <<[id |-> 4, amount |-> 1], [id |-> 5, amount |-> 2]>>],
      [ingredients |-> <<[id |-> 2, amount |-> 9]>>] }

NextImport ==
    \/ \E clear \in BOOLEAN, file \in JsonFiles :
          load_ingredients("json", clear, file)
    \/ \E clear \in BOOLEAN, file \in CsvFiles :
          load_ingredients("csv", clear, file)
    \/ \E u \in RecipeAuthors, d \in ImportPayloads : update(u, 1, TRUE, d)
    \/ \E u \in RecipeAuthors, pk \in CartRecipePks : destroy(u, pk)
    \/ \E pk \in CartRecipePks, m \in Methods : shopping_cart(2, pk, m)

\* no value of these domains exceeds SMALLINT_MAX
InitImport == InitCart /\ db_range_check

SpecImport == InitImport /\ [][NextImport]_vars

(***************************************************************************)
(* Properties of the ingredient catalogue                                  *)
(***************************************************************************)
\* the operations of the public API
PublicApi ==
    { "create", "update", "destroy", "retrieve", "list", "get_link",
      "favorite", "shopping_cart", "subscribe", "subscriptions",
      "download_shopping_cart", "ingredients" }

\* C23: no request to the public API, whoever makes it, creates, updates
\* or deletes an Ingredient.
C23_ApiLeavesCatalog ==
    [][ last'.op \in PublicApi
          => UNCHANGED <<Ingredient, next_ingredient_id>> ]_vars

\* an ingredient the import command added has been the target of a DELETE
C23_Witness ==
    /\ last.op = "ingredients"
    /\ last.data.method = "DELETE"
    /\ last.status = "MethodNotAllowed"
    /\ \E i \in Ingredient : i.id = last.pk /\ i.name = "Salt"

\* the characters of a string with every letter in lower case
Folded(string) == [k \in 1..Len(string) |-> lower(string[k])]

\* value begins with prefix when case is ignored
StartsWithIgnoringCase(value, prefix) ==
    /\ Len(prefix) <= Len(value)
    /\ SubSeq(Folded(value), 1, Len(prefix)) = Folded(prefix)

IsSearch(response) ==
    /\ response.op = "ingredients"
    /\ response.data.method = "GET"
    /\ response.pk = 0

\* C24: the ingredient search with a non-empty name p returns exactly the
\* ingredients of the catalogue whose name starts with p when case is
\* ignored, not those that merely contain p; without a name (or with an
\* empty one) it returns the whole catalogue.
C24_SearchByPrefix ==
    IsSearch(last)
        => /\ last.status = "OK"
           /\ last.body.results =
                 IF Has(last.data, "name") /\ last.data.name /= <<>>
                 THEN { i \in Ingredient :
                          StartsWithIgnoringCase(name_chars[i.name],
                                                 last.data.name) }
                 ELSE Ingredient

\* a search in another case has found Salt and not sugar, which holds the
\* letters further in
C24_Witness ==
    /\ IsSearch(last)
    /\ last.data = [method |-> "GET", name |-> <<"S", "A">>]
    /\ { i.name : i \in last.body.results } = {"Salt"}
    /\ \E i \in Ingredient : i.name = "sugar"

(***************************************************************************)
(* The body of an error response.  The views build the body of their own   *)
(* 400 responses; an exception that a serializer or a permission raises is *)
(* rendered by the framework from the exception's detail: a ValidationError*)
(* of a field is keyed by the field, every other exception by "detail".    *)
(***************************************************************************)
\* serializers.ValidationError raised for the fields flds
ValidationError(flds) == [f \in flds |-> <<"message">>]

\* the body of the response that the client receives
rendered(response) ==
    IF response.status = "ValidationError"
    THEN ValidationError(response.errors)
    ELSE IF response.status \in { "NotAuthenticated", "PermissionDenied",
                                  "NotFound", "MethodNotAllowed" }
    THEN [detail |-> "message"]
    ELSE response.body

\* the domain errors of the API: a ValidationError of a recipe Create or
\* Replace, a Conflict of a membership Add (self-subscription included), a
\* failed membership Remove, PermissionDenied
DomainError(response) ==
    \/ /\ response.op \in {"create", "update"}
       /\ response.status = "ValidationError"
    \/ /\ response.op \in MembershipOps
       /\ response.status = "BadRequest"
    \/ response.status = "PermissionDenied"

\* C25: every domain error of the API is answered with the uniform body
\* {"errors": "<message>"}.
C25_UniformErrorBody ==
    DomainError(last) => DOMAIN rendered(last) = {"errors"}

\* what holds of C25: the errors that the membership views answer
\* themselves have the uniform body
MembershipErrorsUniform ==
    (last.op \in MembershipOps /\ last.status = "BadRequest")
        => DOMAIN rendered(last) = {"errors"}

(***************************************************************************)
(* Properties of the import command and of the catalogue it maintains      *)
(***************************************************************************)
PairOf(i) == [name |-> i.name, measurement_unit |-> i.measurement_unit]

CatalogPairs(db) == { PairOf(i) : i \in db }

\* the line items of the recipes in the cart of user u
CartRows(u) ==
    { row \in RecipeIngredient :
        [user |-> u, recipe |-> row.recipe] \in ShoppingCart }

\* the aggregation of the report grouped by ingredient id
GroupsByIngredient(u) ==
    { [name |-> i.name, unit |-> i.measurement_unit,
       amount |-> str(Total({ row \in CartRows(u) : row.ingredient = i.id }))] :
        i \in { j \in Ingredient :
                  \E row \in CartRows(u) : row.ingredient = j.id } }
    \cup (IF unjoined(cart_recipes(u)) = {} THEN {}
          ELSE {[name |-> None, unit |-> None, amount |-> NoneChars]})

\* C26: in every reachable state the aggregation of the report grouped by
\* (name, unit) has the groups and totals of the aggregation grouped by
\* ingredient id, because no two Ingredient records share a (name, unit).
C26_GroupingByPairIsById ==
    /\ \A i, j \in Ingredient : PairOf(i) = PairOf(j) => i = j
    /\ \A u \in User :
          /\ groups(cart_recipes(u)) = GroupsByIngredient(u)
          /\ Cardinality({ row.ingredient : row \in CartRows(u) })
                = Cardinality(CartPairs(u))

\* a cart holds a recipe whose line items use two ingredients that the
\* import command added
C26_Witness ==
    /\ [user |-> 2, recipe |-> 1] \in ShoppingCart
    /\ \E i, j \in Ingredient :
          /\ i.id > Cardinality(Catalog) /\ j.id > Cardinality(Catalog)
          /\ i /= j
          /\ \E row \in CartRows(2) : row.ingredient = i.id
          /\ \E row \in CartRows(2) : row.ingredient = j.id

IsImport(response) == response.op = "load_ingredients"

\* the valid pairs of the file of an import
ValidPairs(response) ==
    { pair \in Range(pairs_of(response.data.suffix, response.data.file)) :
        pair.name /= "" /\ pair.measurement_unit /= "" }

\* the import `response` has answered a step from the catalogue db to db2
ImportedEachPairOnce(response, db, db2) ==
    LET prior == IF response.partial THEN {} ELSE db IN
    /\ response.status = "OK"
    /\ prior \subseteq db2
    /\ CatalogPairs(db2) = CatalogPairs(prior) \cup ValidPairs(response)
    /\ Cardinality(db2) = Cardinality(CatalogPairs(db2))

\* C27: the import of any JSON or CSV file completes without failing and
\* leaves the catalogue with exactly one record for each distinct valid
\* (name, unit) pair of the file and of the prior catalogue: a pair that is
\* stored, or that occurred earlier in the file, is skipped; importing the
\* same file again adds nothing.
C27_ImportAddsEachPairOnce ==
    [][ IsImport(last')
          => /\ ImportedEachPairOnce(last', Ingredient, Ingredient')
             /\ ( /\ IsImport(last) /\ last.status = "OK"
                  /\ last'.data = last.data /\ ~last'.partial )
                   => Ingredient' = Ingredient ]_vars

\* a valid pair that is not stored occurs twice in the file
RepeatsNewPair(response, db) ==
    LET pairs == pairs_of(response.data.suffix, response.data.file)
        prior == IF response.partial THEN {} ELSE db
    IN  \E j, k \in 1..Len(pairs) :
           /\ j < k /\ pairs[j] = pairs[k]
           /\ pairs[j] \in ValidPairs(response)
           /\ pairs[j] \notin CatalogPairs(prior)

\* what holds of C27: the claim for the files in which no new pair repeats
ImportOfFileWithoutRepeats ==
    [][ (IsImport(last') /\ ~RepeatsNewPair(last', Ingredient))
          => /\ ImportedEachPairOnce(last', Ingredient, Ingredient')
             /\ ( /\ IsImport(last) /\ last.status = "OK"
                  /\ last'.data = last.data /\ ~last'.partial )
                   => Ingredient' = Ingredient ]_vars

\* C28: after any sequence of completed operations (recipe Create,
\* Replace, Delete, membership Add and Remove, the import with and without
\* --clear) every recipe has at least one line item.
C28_EveryRecipeHasLineItem ==
    \A r \in Recipe : \E row \in RecipeIngredient : row.recipe = r.id

\* what holds of C28: the claim for the behaviours without --clear
WithoutClearEveryRecipeHasLineItem ==
    [][ ( /\ C28_EveryRecipeHasLineItem
          /\ ~(IsImport(last') /\ last'.partial) )
          => C28_EveryRecipeHasLineItem' ]_vars

(***************************************************************************)
(* SpecAuthor: the recipe endpoints used by the author, another user and   *)
(* an administrator, with request bodies that name an author.              *)
(***************************************************************************)
AuthorPayloads ==
    { PayloadA, [author |-> 2] @@ PayloadA, [author |-> 2] @@ PayloadB }

NextAuthor == RecipeApi(UserIds, AuthorPayloads)

SpecAuthor == InitRangeChecked /\ [][NextAuthor]_vars

\* C29: the author of a recipe is the user who made the Create request and
\* never changes: an author in the body of a Create or Replace is ignored,
\* and a successful Replace by an administrator who is not the author
\* leaves the author as it was.
C29_AuthorIsCreatorForever ==
    [][ /\ \A r \in Recipe, r2 \in Recipe' :
              r2.id = r.id => r2.author = r.author
        /\ \A r2 \in Recipe' :
              (~\E r \in Recipe : r.id = r2.id)
                 => /\ last'.op = "create"
                    /\ r2.author = last'.user ]_vars

\* an administrator has replaced the recipe of user 1 with a body that
\* names user 2 as the author
C29_Witness ==
    /\ last.op = "update"
    /\ last.status = "OK"
    /\ last.user = 3
    /\ Has(last.data, "author") /\ last.data.author = 2
    /\ RecipeExists(last.pk)
    /\ RecipeOf(last.pk).author = 1
    /\ RecipeOf(last.pk).name = "b"
    /\ last.body.author = 1

====
